---------------------------- MODULE Spec2Model ----------------------------
(***************************************************************************)
(* Model of src/diary.py: a Telegram bot that echoes a text or voice       *)
(* message, lets the user toggle tags on an inline keyboard and stores the *)
(* message together with the chosen tags when "Done" is pressed.           *)
(*                                                                         *)
(* Python strings are sequences of one-character strings, so that          *)
(* startswith, split, replace and strip are computed, not assumed.  The    *)
(* two emoji of the source are written as the tokens "U+2705" (check mark) *)
(* and "U+1F4BE" (floppy disk).                                            *)
(*                                                                         *)
(* Every handler is a coroutine: a task record holds its position (pc) and *)
(* its locals.  One action is the code between two awaits; each awaited    *)
(* external call (Telegram, Whisper, Postgres) either returns or raises.   *)
(***************************************************************************)
EXTENDS Integers, Sequences, FiniteSets, TLC

\* ------------------------------------------------------------------ bounds
MaxEvents == 3      \* updates delivered to the bot in one run
MaxTasks  == 2      \* handler coroutines that may be in flight (SpecConc)

Users == {101, 102}                  \* update.effective_user.id
Slots == 1..MaxTasks

\* ------------------------------------------------------- Python str helpers
Range(q) == {q[i] : i \in 1..Len(q)}

\* str.startswith
StartsWith(s, p) == Len(s) >= Len(p) /\ SubSeq(s, 1, Len(p)) = p

\* index of the first occurrence of character c in s, 0 when there is none
FirstIndex(s, c) ==
    IF \E i \in 1..Len(s) : s[i] = c
    THEN CHOOSE i \in 1..Len(s) : s[i] = c /\ \A j \in 1..(i - 1) : s[j] # c
    ELSE 0

\* s.split(c, 1)[1]  (only evaluated when c occurs in s)
SplitOnceTail(s, c) == SubSeq(s, FirstIndex(s, c) + 1, Len(s))

\* s.replace(a, b) for single characters
Replace(s, a, b) == [i \in 1..Len(s) |-> IF s[i] = a THEN b ELSE s[i]]

\* str.strip()
RECURSIVE LStrip(_)
LStrip(s) == IF s # <<>> /\ Head(s) = " " THEN LStrip(Tail(s)) ELSE s
RECURSIVE RStrip(_)
RStrip(s) ==
    IF s # <<>> /\ s[Len(s)] = " " THEN RStrip(SubSeq(s, 1, Len(s) - 1)) ELSE s
Strip(s) == RStrip(LStrip(s))

\* list(a_set): the elements once each, in an order the code does not fix
ListsOf(S) ==
    {q \in [1..Cardinality(S) -> S] : {q[i] : i \in 1..Cardinality(S)} = S}

\* ------------------------------------------------------------------- tags
TAGS ==
    << [key |-> <<"T","a","g","1">>, desc |-> <<"D","e","s","c"," ","1">>],
       [key |-> <<"T","a","g","2">>, desc |-> <<"D","e","s","c"," ","2">>],
       [key |-> <<"T","a","g","3">>, desc |-> <<"D","e","s","c"," ","3">>],
       [key |-> <<"T","a","g","4">>, desc |-> <<"D","e","s","c"," ","4">>] >>

KeysOf(tags) == [i \in 1..Len(tags) |-> tags[i].key]

TAG_KEYS == KeysOf(TAGS)

TagPrefix == <<"t","a","g",":">>
DoneData  == <<"d","o","n","e">>
CheckMark == <<"U+2705", " ">>
DoneText  == <<"U+1F4BE", " ", "D","o","n","e">>

\* faulty variant of TagButton: the check mark goes on the unselected keys
TagButtonMarksUnselected(key, selected) ==
    [text          |-> (IF key \in selected THEN <<>> ELSE CheckMark)
                        \o Replace(key, "_", " "),
     callback_data |-> TagPrefix \o key]

\* lines 98-104: one InlineKeyboardButton for a tag key
TagButton(key, selected) ==
    [text          |-> (IF key \in selected THEN CheckMark ELSE <<>>)
                        \o Replace(key, "_", " "),
     callback_data |-> TagPrefix \o key]

DoneButton == [text |-> DoneText, callback_data |-> DoneData]

\* build_keyboard over an explicit key list: rows of two keys, then Done
KeyboardOf(keys, selected) ==
    LET n    == Len(keys)
        rows == (n + 1) \div 2
        Row(r) == [j \in 1..(IF 2 * r <= n THEN 2 ELSE 1) |->
                      TagButton(keys[2 * (r - 1) + j], selected)]
    IN  [r \in 1..rows |-> Row(r)] \o << <<DoneButton>> >>

build_keyboard(selected) == KeyboardOf(TAG_KEYS, selected)

NoMarkup == <<>>                     \* reply_markup=None

\* ------------------------------------------------------------------ inputs
Texts == { <<"h","i">>, <<"y","o">> }            \* update.message.text
RawTranscripts == { <<" ","y","o"," ">>, <<" ">> } \* resp.text of Whisper
OtherKey == <<"O","l","d">>           \* a key no longer in the catalog
CallbackInputs ==
    {TagPrefix \o TAG_KEYS[1], TagPrefix \o TAG_KEYS[2], TagPrefix \o OtherKey,
     DoneData, <<"x">>}

AllKeys == Range(TAG_KEYS) \cup {OtherKey}


\* ------------------------------------------------------------------- state
VARIABLES
    user_data,   \* context.user_data of every user (a dict per user)
    db,          \* rows of table diary_messages, in insertion order
    tasks,       \* handler coroutines in flight: position and locals
    outbox,      \* messages sent / edits made through the Bot API
    errors,      \* exceptions logged by error_handler, oldest first
    now,         \* number of updates delivered so far; the clock of datetime.now
    toggles,     \* history: toggles applied per user and key since the last begin
    begun,       \* history: text, ts and update number of each user's last begin
    inbound,     \* history: number of each user's latest text/audio update
    completed,   \* history: a 'done' ran to user_data.clear() since the last begin
    snapped,     \* history: a 'done' took its snapshot since the last begin
    keyboards,   \* per user, the messages (by update number) sent with a keyboard
    kb_tags,     \* SpecKb: the catalog handed to the keyboard builder
    kb_selected, \* SpecKb: the selected set handed to the keyboard builder
    kb_out       \* SpecKb: the keyboard it returned

vars == <<user_data, db, tasks, outbox, errors, now, toggles, begun, inbound,
          completed, snapped, keyboards, kb_tags, kb_selected, kb_out>>

kbvars == <<kb_tags, kb_selected, kb_out>>

\* ---------------------------------------------------- context.user_data dict
NoPending == [text |-> <<>>, ts |-> 0]

EmptyDict == [keys |-> {}, pending_message |-> NoPending, selected_tags |-> {}]

HasPending(ud) == "pending_message" \in ud.keys

\* context.user_data.get("selected_tags", set())
GetSelected(ud) == IF "selected_tags" \in ud.keys THEN ud.selected_tags ELSE {}

\* faulty variant of BeginSession: the previous selection is kept
BeginKeepsSelection(ud, text, ts) ==
    [keys            |-> ud.keys \cup {"pending_message", "selected_tags"},
     pending_message |-> [text |-> text, ts |-> ts],
     selected_tags   |-> GetSelected(ud)]

\* faulty variant of BeginSession: the selected set is not assigned
BeginWithoutSelected(ud, text, ts) ==
    [keys            |-> ud.keys \cup {"pending_message"},
     pending_message |-> [text |-> text, ts |-> ts],
     selected_tags   |-> ud.selected_tags]

\* lines 119-120 / 156-157: the two assignments that begin a session
BeginSession(ud, text, ts) ==
    [keys            |-> ud.keys \cup {"pending_message", "selected_tags"},
     pending_message |-> [text |-> text, ts |-> ts],
     selected_tags   |-> {}]

\* faulty variant of Toggle: a selected tag is never removed
ToggleOnlyAdds(selected, tag) == selected \cup {tag}

\* lines 185-188: flip the membership of one tag
Toggle(selected, tag) ==
    IF tag \in selected THEN selected \ {tag} ELSE selected \cup {tag}

\* line 189: context.user_data["selected_tags"] = selected
SetSelected(ud, selected) ==
    [ud EXCEPT !.keys = @ \cup {"selected_tags"}, !.selected_tags = selected]

\* faulty variants of ClearUser: every user's dict is cleared; nothing is
ClearEveryUser(store, u) == [v \in Users |-> EmptyDict]

ClearNothing(store, u) == store

\* line 205: context.user_data.clear() of one user's dict
ClearUser(store, u) == [store EXCEPT ![u] = EmptyDict]

\* faulty variant of NoSession: the guard never holds
NoSessionNever(ud) == FALSE

\* line 176: the guard of the 'nothing to store' branch
NoSession(ud) == ~HasPending(ud)

\* -------------------------------------------------------------------- tasks
NoBegun == [text |-> <<>>, ts |-> 0, src |-> 0]

\* a keyboard sent before this process started: its message is still in the
\* chat, the session it belonged to is gone
OldKeyboard == 0

NoSnap == [text |-> <<>>, ts |-> 0, tags |-> <<>>]

IdleTask ==
    [kind |-> "idle", pc |-> "idle", user |-> 0, text |-> <<>>, ts |-> 0,
     data |-> <<>>, snap |-> NoSnap, markup |-> NoMarkup,
     prev |-> EmptyDict, odd |-> {}, src |-> 0, origin |-> 0]

Idle(s) == tasks[s].kind = "idle"
AllIdle == \A s \in Slots : Idle(s)
LowestFree(s) == Idle(s) /\ \A r \in 1..(s - 1) : ~Idle(r)

\* Application built without concurrent_updates (line 219): one update at a
\* time, the next one is taken when the handler of the previous has returned
SeqGate(s) == AllIdle /\ s = 1
\* the same handlers under concurrent dispatch of updates
ConcGate(s) == LowestFree(s)

Finish(s) == tasks' = [tasks EXCEPT ![s] = IdleTask]

\* the exception an awaited call raises at each position
ExcAt(pc) ==
    CASE pc = "transcribe" -> "TranscriptionError"
      [] pc = "store"      -> "PersistenceError"
      [] OTHER             -> "TelegramError"

\* keys toggled an odd number of times since the user's last begin
OddToggled(u) == {k \in AllKeys : toggles[u][k] % 2 = 1}

ZeroToggles == [k \in AllKeys |-> 0]

Msg(op, to, body, text, markup) ==
    [op |-> op, to |-> to, body |-> body, text |-> text, markup |-> markup]


\* ---------------------------------------------------------- store_message
\* faulty variant of store_message: the tags are not written
store_message_untagged(rows, telegram_id, text, ts, tags) ==
    Append(rows, [telegram_id |-> telegram_id, ts |-> ts, text |-> text,
                  tags |-> <<>>])

\* lines 62-74: one insert into diary_messages
store_message(rows, telegram_id, text, ts, tags) ==
    Append(rows, [telegram_id |-> telegram_id, ts |-> ts, text |-> text,
                  tags |-> tags])

\* -------------------------------------------------------------------- Init
InitBot ==
    /\ user_data = [u \in Users |-> EmptyDict]
    /\ db = <<>>
    /\ tasks = [s \in Slots |-> IdleTask]
    /\ outbox = {}
    /\ errors = <<>>
    /\ now = 0
    /\ toggles = [u \in Users |-> ZeroToggles]
    /\ begun = [u \in Users |-> NoBegun]
    /\ inbound = [u \in Users |-> 0]
    /\ completed = [u \in Users |-> FALSE]
    /\ snapped = [u \in Users |-> FALSE]
    /\ keyboards = [u \in Users |-> {OldKeyboard}]

Init ==
    /\ InitBot
    /\ kb_tags = TAGS
    /\ kb_selected = {}
    /\ kb_out = build_keyboard({})

\* history variables reset when update number src begins a session for user u
BeginHistory(u, text, ts, src) ==
    /\ toggles' = [toggles EXCEPT ![u] = ZeroToggles]
    /\ begun' = [begun EXCEPT ![u] = [text |-> text, ts |-> ts, src |-> src]]
    /\ completed' = [completed EXCEPT ![u] = FALSE]
    /\ snapped' = [snapped EXCEPT ![u] = FALSE]

\* ------------------------------------------------------------- handle_text
\* lines 113-126: the update arrives and the handler runs up to its await
handle_text(s, u, text) ==
    /\ now < MaxEvents
    /\ Idle(s)
    /\ now' = now + 1
    /\ user_data' = [user_data EXCEPT ![u] = BeginSession(@, text, now')]
    /\ tasks' = [tasks EXCEPT ![s] =
          [IdleTask EXCEPT !.kind = "handle_text", !.pc = "reply", !.user = u,
                           !.text = text, !.ts = now',
                           !.markup = build_keyboard({}),
                           !.prev = user_data[u], !.src = now']]
    /\ inbound' = [inbound EXCEPT ![u] = now']
    /\ BeginHistory(u, text, now', now')
    /\ UNCHANGED <<db, outbox, errors, kbvars, keyboards>>

\* lines 127-131 / 164-168: update.message.reply_text returned
ReplyOk(s) ==
    /\ tasks[s].pc = "reply"
    /\ outbox' = outbox \cup
          {Msg("reply_text", tasks[s].user,
               IF tasks[s].kind = "handle_text" THEN "This is the text"
                                                ELSE "This is the transcription",
               tasks[s].text, tasks[s].markup)}
    /\ keyboards' = [keyboards EXCEPT ![tasks[s].user] = @ \cup {tasks[s].src}]
    /\ Finish(s)
    /\ UNCHANGED <<user_data, db, errors, now, toggles, begun, inbound,
                   completed, snapped, kbvars>>

\* ------------------------------------------------------------ handle_audio
\* faulty variant of handle_audio: the session is begun, with an empty text,
\* before the audio is fetched and transcribed
handle_audio_begins_early(s, u) ==
    /\ now < MaxEvents
    /\ Idle(s)
    /\ now' = now + 1
    /\ user_data' = [user_data EXCEPT ![u] = BeginSession(@, <<>>, now')]
    /\ tasks' = [tasks EXCEPT ![s] =
          [IdleTask EXCEPT !.kind = "handle_audio", !.pc = "get_file",
                           !.user = u, !.prev = user_data[u], !.src = now']]
    /\ inbound' = [inbound EXCEPT ![u] = now']
    /\ UNCHANGED <<db, outbox, errors, toggles, begun, completed,
                   snapped, kbvars, keyboards>>

\* lines 133-136: the update arrives, get_file is awaited
handle_audio(s, u) ==
    /\ now < MaxEvents
    /\ Idle(s)
    /\ now' = now + 1
    /\ tasks' = [tasks EXCEPT ![s] =
          [IdleTask EXCEPT !.kind = "handle_audio", !.pc = "get_file",
                           !.user = u, !.prev = user_data[u], !.src = now']]
    /\ inbound' = [inbound EXCEPT ![u] = now']
    /\ UNCHANGED <<user_data, db, outbox, errors, toggles, begun, completed,
                   snapped, kbvars, keyboards>>

\* lines 136-140: get_file returned, download_to_drive is awaited
GetFileOk(s) ==
    /\ tasks[s].pc = "get_file"
    /\ tasks' = [tasks EXCEPT ![s].pc = "download"]
    /\ UNCHANGED <<user_data, db, outbox, errors, now, toggles, begun, inbound,
                   completed, snapped, kbvars, keyboards>>

\* lines 140-151: the download returned, the transcription runs in a thread
DownloadOk(s) ==
    /\ tasks[s].pc = "download"
    /\ tasks' = [tasks EXCEPT ![s].pc = "transcribe"]
    /\ UNCHANGED <<user_data, db, outbox, errors, now, toggles, begun, inbound,
                   completed, snapped, kbvars, keyboards>>

\* lines 142-163: Whisper returned raw; strip, begin the session, await reply
TranscribeOk(s, raw) ==
    /\ tasks[s].pc = "transcribe"
    /\ LET u          == tasks[s].user
           transcript == Strip(raw)
       IN  /\ user_data' = [user_data EXCEPT
                               ![u] = BeginSession(@, transcript, now)]
           /\ tasks' = [tasks EXCEPT ![s].pc = "reply",
                                     ![s].text = transcript,
                                     ![s].ts = now,
                                     ![s].markup = build_keyboard({})]
           /\ BeginHistory(u, transcript, now, tasks[s].src)
    /\ UNCHANGED <<db, outbox, errors, now, inbound, kbvars, keyboards>>

\* ---------------------------------------------------------- button_handler
\* lines 170-173: the callback query of a button of one of the user's
\* keyboards arrives, query.answer() is awaited
button_handler(s, u, data) ==
    /\ now < MaxEvents
    /\ Idle(s)
    /\ now' = now + 1
    /\ \E origin \in keyboards[u] :
          tasks' = [tasks EXCEPT ![s] =
             [IdleTask EXCEPT !.kind = "button_handler", !.pc = "answer",
                              !.user = u, !.data = data, !.origin = origin,
                              !.prev = user_data[u], !.src = now']]
    /\ UNCHANGED <<user_data, db, outbox, errors, toggles, begun, inbound,
                   completed, snapped, kbvars, keyboards>>

\* lines 174-178: no pending message, the 'nothing to store' edit is awaited
AnswerNoSession(s) ==
    /\ tasks[s].pc = "answer"
    /\ NoSession(user_data[tasks[s].user])
    /\ tasks' = [tasks EXCEPT ![s].pc = "edit_nothing"]
    /\ UNCHANGED <<user_data, db, outbox, errors, now, toggles, begun, inbound,
                   completed, snapped, kbvars, keyboards>>

\* faulty variant of AnswerToggle: the keyboard is built before the flip
AnswerToggleStaleKeyboard(s) ==
    /\ tasks[s].pc = "answer"
    /\ ~NoSession(user_data[tasks[s].user])
    /\ StartsWith(tasks[s].data, TagPrefix)
    /\ LET u        == tasks[s].user
           tag      == SplitOnceTail(tasks[s].data, ":")
           selected == Toggle(GetSelected(user_data[u]), tag)
       IN  /\ user_data' = [user_data EXCEPT ![u] = SetSelected(@, selected)]
           /\ tasks' = [tasks EXCEPT
                 ![s].pc = "edit_markup",
                 ![s].markup = build_keyboard(GetSelected(user_data[u]))]
           /\ toggles' = [toggles EXCEPT ![u][tag] = @ + 1]
    /\ UNCHANGED <<db, outbox, errors, now, begun, inbound, completed, snapped,
                   kbvars, keyboards>>

\* faulty variant of AnswerToggle: a press on the keyboard of an earlier
\* message leaves the selection alone
AnswerToggleOwnKeyboardOnly(s) ==
    /\ tasks[s].pc = "answer"
    /\ ~NoSession(user_data[tasks[s].user])
    /\ StartsWith(tasks[s].data, TagPrefix)
    /\ LET u        == tasks[s].user
           tag      == SplitOnceTail(tasks[s].data, ":")
           selected == IF tasks[s].origin = begun[u].src
                       THEN Toggle(GetSelected(user_data[u]), tag)
                       ELSE GetSelected(user_data[u])
       IN  /\ user_data' = [user_data EXCEPT ![u] = SetSelected(@, selected)]
           /\ tasks' = [tasks EXCEPT ![s].pc = "edit_markup",
                                     ![s].markup = build_keyboard(selected)]
           /\ toggles' = [toggles EXCEPT ![u][tag] = @ + 1]
    /\ UNCHANGED <<db, outbox, errors, now, begun, inbound, completed, snapped,
                   kbvars, keyboards>>

\* lines 180-190: a tag button; flip the tag, await the keyboard edit
AnswerToggle(s) ==
    /\ tasks[s].pc = "answer"
    /\ ~NoSession(user_data[tasks[s].user])
    /\ StartsWith(tasks[s].data, TagPrefix)
    /\ LET u        == tasks[s].user
           tag      == SplitOnceTail(tasks[s].data, ":")
           selected == Toggle(GetSelected(user_data[u]), tag)
       IN  /\ user_data' = [user_data EXCEPT ![u] = SetSelected(@, selected)]
           /\ tasks' = [tasks EXCEPT ![s].pc = "edit_markup",
                                     ![s].markup = build_keyboard(selected)]
           /\ toggles' = [toggles EXCEPT ![u][tag] = @ + 1]
    /\ UNCHANGED <<db, outbox, errors, now, begun, inbound, completed, snapped,
                   kbvars, keyboards>>

\* lines 180-199: the Done button; snapshot, store_message runs in a thread
AnswerDone(s) ==
    /\ tasks[s].pc = "answer"
    /\ ~NoSession(user_data[tasks[s].user])
    /\ ~StartsWith(tasks[s].data, TagPrefix)
    /\ tasks[s].data = DoneData
    /\ LET u       == tasks[s].user
           pending == user_data[u].pending_message
       IN  /\ \E tags \in ListsOf(GetSelected(user_data[u])) :
                 tasks' = [tasks EXCEPT
                    ![s].pc = "store",
                    ![s].snap = [text |-> pending.text, ts |-> pending.ts,
                                 tags |-> tags],
                    ![s].odd = OddToggled(u)]
           /\ snapped' = [snapped EXCEPT ![u] = TRUE]
    /\ UNCHANGED <<user_data, db, outbox, errors, now, toggles, begun, inbound,
                   completed, kbvars, keyboards>>

\* lines 180-192: callback data that is neither a tag nor done; nothing to do
AnswerOther(s) ==
    /\ tasks[s].pc = "answer"
    /\ ~NoSession(user_data[tasks[s].user])
    /\ ~StartsWith(tasks[s].data, TagPrefix)
    /\ tasks[s].data # DoneData
    /\ Finish(s)
    /\ UNCHANGED <<user_data, db, outbox, errors, now, toggles, begun, inbound,
                   completed, snapped, kbvars, keyboards>>

\* lines 177-178: the 'nothing to store' edit returned
EditNothingOk(s) ==
    /\ tasks[s].pc = "edit_nothing"
    /\ outbox' = outbox \cup
          {Msg("edit_message_text", tasks[s].user, "Nothing to store", <<>>,
               NoMarkup)}
    /\ Finish(s)
    /\ UNCHANGED <<user_data, db, errors, now, toggles, begun, inbound,
                   completed, snapped, kbvars, keyboards>>

\* line 190: the keyboard edit returned
EditMarkupOk(s) ==
    /\ tasks[s].pc = "edit_markup"
    /\ outbox' = outbox \cup
          {Msg("edit_message_reply_markup", tasks[s].user, "", <<>>,
               tasks[s].markup)}
    /\ Finish(s)
    /\ UNCHANGED <<user_data, db, errors, now, toggles, begun, inbound,
                   completed, snapped, kbvars, keyboards>>

\* faulty variant of StoreOk: the handler goes on without the row inserted
StoreOkWithoutRow(s) ==
    /\ tasks[s].pc = "store"
    /\ tasks' = [tasks EXCEPT ![s].pc = "remove_markup"]
    /\ UNCHANGED <<user_data, db, outbox, errors, now, toggles, begun, inbound,
                   completed, snapped, kbvars, keyboards>>

\* lines 199-202: store_message returned, the removal of the keyboard is awaited
StoreOk(s) ==
    /\ tasks[s].pc = "store"
    /\ db' = store_message(db, tasks[s].user, tasks[s].snap.text,
                           tasks[s].snap.ts, tasks[s].snap.tags)
    /\ tasks' = [tasks EXCEPT ![s].pc = "remove_markup"]
    /\ UNCHANGED <<user_data, outbox, errors, now, toggles, begun, inbound,
                   completed, snapped, kbvars, keyboards>>

\* lines 202-203: the keyboard is removed, the 'Saved' edit is awaited
RemoveMarkupOk(s) ==
    /\ tasks[s].pc = "remove_markup"
    /\ outbox' = outbox \cup
          {Msg("edit_message_reply_markup", tasks[s].user, "", <<>>, NoMarkup)}
    /\ tasks' = [tasks EXCEPT ![s].pc = "saved"]
    /\ UNCHANGED <<user_data, db, errors, now, toggles, begun, inbound,
                   completed, snapped, kbvars, keyboards>>

\* lines 203-205: the 'Saved' edit returned, user_data is cleared
SavedOk(s) ==
    /\ tasks[s].pc = "saved"
    /\ outbox' = outbox \cup
          {Msg("edit_message_text", tasks[s].user, "Saved!", <<>>, NoMarkup)}
    /\ user_data' = ClearUser(user_data, tasks[s].user)
    /\ completed' = [completed EXCEPT ![tasks[s].user] = TRUE]
    /\ Finish(s)
    /\ UNCHANGED <<db, errors, now, toggles, begun, inbound, snapped, kbvars, keyboards>>

\* ----------------------------------------------------------- error_handler
AwaitPcs == {"reply", "get_file", "download", "transcribe", "answer",
             "edit_nothing", "edit_markup", "store", "remove_markup", "saved"}

\* faulty variant of error_handler: it also sends a notice to the user
error_handler_notifies(s) ==
    /\ tasks[s].pc \in AwaitPcs
    /\ errors' = Append(errors, [exc |-> ExcAt(tasks[s].pc),
                                 user |-> tasks[s].user, src |-> tasks[s].src])
    /\ outbox' = outbox \cup
          {Msg("send_message", tasks[s].user, "Something went wrong", <<>>,
               NoMarkup)}
    /\ Finish(s)
    /\ UNCHANGED <<user_data, db, now, toggles, begun, inbound, completed,
                   snapped, kbvars, keyboards>>

\* faulty variant of error_handler: the user's dict is cleared on a failure
error_handler_clears(s) ==
    /\ tasks[s].pc \in AwaitPcs
    /\ errors' = Append(errors, [exc |-> ExcAt(tasks[s].pc),
                                 user |-> tasks[s].user, src |-> tasks[s].src])
    /\ user_data' = ClearUser(user_data, tasks[s].user)
    /\ Finish(s)
    /\ UNCHANGED <<db, outbox, now, toggles, begun, inbound, completed,
                   snapped, kbvars, keyboards>>

\* lines 211-212: the awaited call raised; the handler is abandoned where it
\* stood and the exception is logged
error_handler(s) ==
    /\ tasks[s].pc \in AwaitPcs
    /\ errors' = Append(errors, [exc |-> ExcAt(tasks[s].pc),
                                 user |-> tasks[s].user, src |-> tasks[s].src])
    /\ Finish(s)
    /\ UNCHANGED <<user_data, db, outbox, now, toggles, begun, inbound,
                   completed, snapped, kbvars, keyboards>>

\* ------------------------------------------------------------ specification
Step(s) ==
    \/ ReplyOk(s)
    \/ GetFileOk(s)
    \/ DownloadOk(s)
    \/ \E raw \in RawTranscripts : TranscribeOk(s, raw)
    \/ AnswerNoSession(s)
    \/ AnswerToggle(s)
    \/ AnswerDone(s)
    \/ AnswerOther(s)
    \/ EditNothingOk(s)
    \/ EditMarkupOk(s)
    \/ StoreOk(s)
    \/ RemoveMarkupOk(s)
    \/ SavedOk(s)
    \/ error_handler(s)

Dispatch(s) ==
    \E u \in Users :
        \/ \E text \in Texts : handle_text(s, u, text)
        \/ handle_audio(s, u)
        \/ \E data \in CallbackInputs : button_handler(s, u, data)

Next ==
    \E s \in Slots :
        \/ SeqGate(s) /\ Dispatch(s)
        \/ Step(s)

Spec == Init /\ [][Next]_vars

NextConc ==
    \E s \in Slots :
        \/ ConcGate(s) /\ Dispatch(s)
        \/ Step(s)

SpecConc == Init /\ [][NextConc]_vars


\* ------------------------------------------------- the keyboard builder alone
MaxCatalog == 3     \* longest catalog drawn for the keyboard builder

KbPool ==
    { [key |-> <<"a","_","b">>, desc |-> <<"A"," ","B">>],
      [key |-> <<"c">>,         desc |-> <<"C","_","c">>],
      [key |-> <<"_","d">>,     desc |-> <<"_","d">>] }

Catalogs ==
    {TAGS} \cup
    UNION { {q \in [1..n -> KbPool] : \A i, j \in 1..n : q[i] = q[j] => i = j}
            : n \in 0..MaxCatalog }

KbKeys == {e.key : e \in KbPool} \cup {TAG_KEYS[1], OtherKey}

\* build_keyboard applied to one drawn catalog and selected set
Render ==
    /\ \E tags \in Catalogs, selected \in SUBSET KbKeys :
          /\ kb_tags' = tags
          /\ kb_selected' = selected
          /\ kb_out' = KeyboardOf(KeysOf(tags), selected)
    /\ UNCHANGED <<user_data, db, tasks, outbox, errors, now, toggles, begun,
                   inbound, completed, snapped, keyboards>>

SpecKb == Init /\ [][Render]_vars

\* ==================================================================== claims
Active(u) == HasPending(user_data[u])
Selected(u) == GetSelected(user_data[u])
InFlight(s) == tasks[s].kind # "idle"
\* the step abandons handler s with an exception
Fails(s) == InFlight(s) /\ Len(errors') = Len(errors) + 1 /\ tasks'[s] = IdleTask

\* C1: in an active session a key is selected iff it was toggled an odd
\* number of times since the session began.
C1_ToggleParity ==
    \A u \in Users :
        Active(u) =>
            /\ Selected(u) \subseteq AllKeys
            /\ \A k \in AllKeys : (k \in Selected(u)) <=> (toggles[u][k] % 2 = 1)

C1_Witness ==
    \E u \in Users, k \in AllKeys :
        Active(u) /\ toggles[u][k] = 2 /\ k \notin Selected(u)

\* the row a 'done' press inserts, given the session history of its user
RowOfSession(s, row) ==
    LET u == tasks[s].user
    IN  /\ row.telegram_id = u
        /\ row.text = begun[u].text
        /\ row.ts = begun[u].ts
        /\ Range(row.tags) = tasks[s].odd
        /\ Len(row.tags) = Cardinality(tasks[s].odd)

Stores(s) == tasks[s].pc = "store" /\ tasks'[s].pc = "remove_markup"

\* C2 as stated: the row stored by a 'done' press carries the text and
\* timestamp of the user's most recent inbound message and exactly the keys
\* toggled an odd number of times when 'done' was pressed.
C2_Orig ==
    [][\A s \in Slots :
          Stores(s) =>
              /\ db' = Append(db, db'[Len(db')])
              /\ RowOfSession(s, db'[Len(db')])
              /\ begun[tasks[s].user].src = inbound[tasks[s].user]]_vars

\* C2 amended: the row stored by a 'done' press carries the text and
\* timestamp of the user's most recent inbound message that began a session
\* (a text message, or an audio message once transcribed) and exactly the
\* keys toggled an odd number of times when 'done' was pressed; rows already
\* stored never change, and rows are only added by a 'done' press.
C2_StoredRow ==
    [][/\ \A s \in Slots :
             Stores(s) =>
                 /\ db' = Append(db, db'[Len(db')])
                 /\ RowOfSession(s, db'[Len(db')])
       /\ (\A s \in Slots : ~Stores(s)) => db' = db]_vars

C2_Witness ==
    \E i \in 1..Len(db) :
        /\ db[i].tags # <<>>
        /\ db[i].text \in Texts

\* C3: once a 'done' has run to completion for a user, and until a message
\* begins a new session, the user's dict stays empty and every toggle or
\* 'done' of that user takes the nothing-to-store branch: it stores no row
\* and creates no session state.
C3_AfterDone ==
    [][/\ \A u \in Users : completed'[u] => user_data'[u] = EmptyDict
       /\ \A s \in Slots :
             (tasks[s].kind = "button_handler" /\ completed[tasks[s].user]) =>
                 /\ db' = db
                 /\ user_data' = user_data
                 /\ tasks'[s].pc \in {"answer", "edit_nothing", "idle"}
                 /\ (tasks[s].pc = "edit_nothing" /\ ~Fails(s)) =>
                        \E m \in outbox' : /\ m.to = tasks[s].user
                                           /\ m.body = "Nothing to store"]_vars

C3_Witness ==
    \E s \in Slots :
        /\ tasks[s].pc = "edit_nothing"
        /\ completed[tasks[s].user]
        /\ StartsWith(tasks[s].data, TagPrefix)
        /\ Len(db) = 1

\* C4: when a text or transcribed audio message has been taken in, the
\* user's dict holds exactly the new text with its timestamp and an empty
\* selected set, whatever it held before.
C4_BeginReplaces ==
    \A s \in Slots :
        (tasks[s].kind \in {"handle_text", "handle_audio"} /\ tasks[s].pc = "reply")
        => user_data[tasks[s].user] =
              [keys            |-> {"pending_message", "selected_tags"},
               pending_message |-> [text |-> tasks[s].text, ts |-> tasks[s].ts],
               selected_tags   |-> {}]

C4_Witness ==
    \E s \in Slots :
        /\ tasks[s].pc = "reply"
        /\ HasPending(tasks[s].prev)
        /\ tasks[s].prev.selected_tags # {}
        /\ tasks[s].prev.pending_message.text # tasks[s].text

\* C5: a 'done' press of a user without a session takes the nothing-to-store
\* branch: its only effect is the nothing-to-store edit; it never reaches
\* store_message, adds no row and leaves the user's dict empty.
C5_DoneWithoutSession ==
    [][\A s \in Slots :
          (/\ tasks[s].kind = "button_handler"
           /\ tasks[s].data = DoneData
           /\ ~HasPending(tasks[s].prev)) =>
              /\ db' = db
              /\ user_data' = user_data
              /\ user_data[tasks[s].user] = EmptyDict
              /\ tasks'[s].pc \in {"answer", "edit_nothing", "idle"}
              /\ tasks[s].pc = "answer" => (tasks'[s].pc = "edit_nothing" \/ Fails(s))
              /\ (tasks[s].pc = "edit_nothing" /\ ~Fails(s)) =>
                     outbox' = outbox \cup
                        {Msg("edit_message_text", tasks[s].user,
                             "Nothing to store", <<>>, NoMarkup)}]_vars

C5_Witness ==
    \E s \in Slots :
        /\ tasks[s].data = DoneData
        /\ ~HasPending(tasks[s].prev)
        /\ tasks[s].pc = "edit_nothing"


\* C6 as stated: once a 'done' has taken its snapshot of a session, no toggle
\* of the same user is accepted against that session.
C6_Orig ==
    \A s \in Slots :
        (tasks[s].kind = "button_handler" /\ tasks[s].pc = "edit_markup")
        => ~snapped[tasks[s].user]

C8_Orig ==
    [][\A s \in Slots :
          (/\ tasks[s].kind = "button_handler"
           /\ StartsWith(tasks[s].data, TagPrefix)
           /\ Fails(s)) => user_data'[tasks[s].user] = tasks[s].prev]_vars

\* C9: a step of the handler of one user's update leaves the dict of every
\* other user unchanged, whether the step returns or raises; and when a
\* handler is abandoned with an exception the dispatcher is free to take the
\* next update.
C9_Isolation ==
    [][/\ \A v \in Users :
             user_data'[v] # user_data[v] =>
                 \E s \in Slots :
                     /\ tasks'[s] # tasks[s]
                     /\ v \in {tasks[s].user, tasks'[s].user}
                     /\ \A r \in Slots \ {s} : tasks'[r] = tasks[r]
       /\ \A s \in Slots : Fails(s) => AllIdle']_vars

C9_Witness ==
    \E i \in 1..Len(errors), v \in Users :
        /\ v # errors[i].user
        /\ Active(errors[i].user)
        /\ Active(v)
        /\ begun[v].src > errors[i].src
        /\ toggles[v][TAG_KEYS[1]] = 1


\* the i-th tag button of keyboard kb: two buttons per row, in row order
ButtonAt(kb, i) == kb[(i + 1) \div 2][((i - 1) % 2) + 1]

\* label is name with every underscore turned into a space, after the check
\* mark when marked
IsLabel(label, name, marked) ==
    LET off == IF marked THEN Len(CheckMark) ELSE 0
    IN  /\ Len(label) = off + Len(name)
        /\ marked => SubSeq(label, 1, off) = CheckMark
        /\ \A j \in 1..Len(name) :
              label[off + j] = (IF name[j] = "_" THEN " " ELSE name[j])

\* the rows of kb: two tag buttons per row in catalog order, one in the last
\* tag row of an odd catalog, callback data "tag:" + key, then the Done row
LayoutOf(kb, tags) ==
    LET n == Len(tags)
    IN  /\ Len(kb) = (n + 1) \div 2 + 1
        /\ kb[Len(kb)] = <<DoneButton>>
        /\ \A r \in 1..(Len(kb) - 1) :
              Len(kb[r]) = (IF r = Len(kb) - 1 /\ n % 2 = 1 THEN 1 ELSE 2)
        /\ \A i \in 1..n :
              ButtonAt(kb, i).callback_data = TagPrefix \o tags[i].key

\* C10 as stated: the keyboard lays the catalog out two per row in catalog
\* order, each button labeled with the tag's description (separators turned
\* into spaces), marked exactly when selected, and ends with the Done row.
C10_Orig ==
    /\ LayoutOf(kb_out, kb_tags)
    /\ \A i \in 1..Len(kb_tags) :
          IsLabel(ButtonAt(kb_out, i).text, kb_tags[i].desc,
                  kb_tags[i].key \in kb_selected)

\* C10 amended: the keyboard lays the catalog out two per row in catalog
\* order (a last single-tag row when the catalog is odd), each button labeled
\* with the tag's identifier (underscores turned into spaces; the description
\* is not shown), marked exactly when the identifier is selected, and ends
\* with a row holding only the Done button.
C10_Layout ==
    /\ LayoutOf(kb_out, kb_tags)
    /\ \A i \in 1..Len(kb_tags) :
          IsLabel(ButtonAt(kb_out, i).text, kb_tags[i].key,
                  kb_tags[i].key \in kb_selected)

C10_Witness ==
    /\ Len(kb_tags) = 3
    /\ kb_tags[3].key = <<"a","_","b">>
    /\ kb_tags[3].key \in kb_selected
    /\ kb_tags[1].key \notin kb_selected
    /\ OtherKey \in kb_selected
    /\ Len(kb_out) = 3
    /\ kb_out[2] = << [text |-> CheckMark \o <<"a"," ","b">>,
                      callback_data |-> TagPrefix \o <<"a","_","b">>] >>

\* the row of the snapshot handler s took
SnapRow(s) ==
    [telegram_id |-> tasks[s].user, ts |-> tasks[s].snap.ts,
     text |-> tasks[s].snap.text, tags |-> tasks[s].snap.tags]

SavedMsg(u) == Msg("edit_message_text", u, "Saved!", <<>>, NoMarkup)
RemovedMsg(u) == Msg("edit_message_reply_markup", u, "", <<>>, NoMarkup)

\* C11: a 'done' with a session persists, then removes the keyboard, then
\* shows 'Saved!': the removal is only awaited once store_message has returned
\* and the row of this press is in the table, the confirmation only once the
\* removal has returned, and only these two steps emit the removal and the
\* confirmation.
C11_DoneOrder ==
    [][/\ \A s \in Slots :
             /\ (tasks'[s].pc = "remove_markup" /\ tasks[s].pc # "remove_markup")
                => /\ tasks[s].pc = "store"
                   /\ db' = Append(db, SnapRow(s))
             /\ tasks'[s].pc \in {"remove_markup", "saved"}
                => \E i \in 1..Len(db') : db'[i] = SnapRow(s)
             /\ (tasks'[s].pc = "saved" /\ tasks[s].pc # "saved")
                => /\ tasks[s].pc = "remove_markup"
                   /\ RemovedMsg(tasks[s].user) \in outbox'
       /\ \A m \in outbox' \ outbox :
             /\ m.body = "Saved!" =>
                   \E s \in Slots : /\ tasks[s].pc = "saved"
                                    /\ tasks[s].user = m.to
                                    /\ \E i \in 1..Len(db) : db[i] = SnapRow(s)
             /\ (m.op = "edit_message_reply_markup" /\ m.markup = NoMarkup) =>
                   \E s \in Slots : /\ tasks[s].pc = "remove_markup"
                                    /\ tasks[s].user = m.to
                                    /\ \E i \in 1..Len(db) : db[i] = SnapRow(s)]_vars

C11_Witness ==
    \E u \in Users :
        /\ SavedMsg(u) \in outbox
        /\ RemovedMsg(u) \in outbox
        /\ \E i \in 1..Len(db) : db[i].telegram_id = u /\ db[i].tags # <<>>
        /\ user_data[u] = EmptyDict

\* an audio handler of user u is in flight and has not yet its transcript
Transcribing(u) ==
    \E r \in Slots : /\ tasks[r].kind = "handle_audio"
                     /\ tasks[r].user = u
                     /\ tasks[r].pc \in {"get_file", "download", "transcribe"}

C13_FailedAudio ==
    [][\A s \in Slots :
          (/\ tasks[s].kind = "handle_audio"
           /\ tasks[s].pc \in {"get_file", "download", "transcribe"}) =>
              /\ user_data[tasks[s].user] = tasks[s].prev
              /\ Fails(s) =>
                    /\ user_data' = user_data
                    /\ outbox' = outbox
                    /\ keyboards' = keyboards
                    /\ db' = db
                    /\ begun' = begun
                    /\ tasks'[s] = IdleTask
                    /\ AllIdle']_vars

C13_Witness ==
    \E i \in 1..Len(errors) :
        /\ errors[i].exc = "TranscriptionError"
        /\ inbound[errors[i].user] = errors[i].src
        /\ AllIdle
        /\ Active(errors[i].user)
        /\ Selected(errors[i].user) # {}
        /\ begun[errors[i].user].src < errors[i].src

\* kb is the catalog's keyboard with exactly the keys of selected marked
ShowsSelection(kb, selected) ==
    /\ LayoutOf(kb, TAGS)
    /\ \A i \in 1..Len(TAGS) :
          IsLabel(ButtonAt(kb, i).text, TAGS[i].key, TAGS[i].key \in selected)

\* C14: the keyboard an accepted toggle renders shows exactly the user's
\* selected set as updated by that toggle, and it is put on the existing
\* message by an edit: nothing else is sent and no message with a keyboard is
\* added; the reply to a text or audio message carries a keyboard with no
\* key marked.
C14_Rendering ==
    [][\A s \in Slots :
          /\ tasks'[s].pc = "edit_markup" =>
                ShowsSelection(tasks'[s].markup,
                               GetSelected(user_data'[tasks'[s].user]))
          /\ (tasks[s].pc = "edit_markup" /\ tasks'[s] # tasks[s] /\ ~Fails(s)) =>
                /\ outbox' = outbox \cup
                      {Msg("edit_message_reply_markup", tasks[s].user, "", <<>>,
                           tasks[s].markup)}
                /\ keyboards' = keyboards
          /\ tasks'[s].pc = "reply" => ShowsSelection(tasks'[s].markup, {})
          /\ (tasks[s].pc = "reply" /\ tasks'[s] # tasks[s] /\ ~Fails(s)) =>
                \E m \in outbox' : /\ m.op = "reply_text"
                                   /\ m.to = tasks[s].user
                                   /\ m.text = tasks[s].text
                                   /\ ShowsSelection(m.markup, {})]_vars

C14_Witness ==
    /\ \E s \in Slots : /\ tasks[s].pc = "edit_markup"
                        /\ Cardinality(Selected(tasks[s].user)) = 2
                        /\ TAG_KEYS[2] \in Selected(tasks[s].user)
    /\ \E m \in outbox : /\ m.op = "edit_message_reply_markup"
                         /\ m.markup # NoMarkup
                         /\ ~ShowsSelection(m.markup, {})

\* the rows stored for user u from the session captured at ts
RowsOf(u, ts) == {i \in 1..Len(db) : db[i].telegram_id = u /\ db[i].ts = ts}

\* C15 as stated: between two consecutive begins of a user (or after the
\* last one) at most one row is stored for that user, whatever 'done' presses
\* arrive and whichever of the edits after the insert fails.
C15_Orig ==
    \A u \in Users : \A ts \in 1..now : Cardinality(RowsOf(u, ts)) <= 1

C17_FailedStore ==
    [][\A s \in Slots :
          /\ (tasks[s].pc = "store" /\ Fails(s)) =>
                /\ db' = db
                /\ outbox' = outbox
                /\ user_data' = user_data
                /\ user_data'[tasks[s].user] = tasks[s].prev
                /\ HasPending(user_data'[tasks[s].user])
                /\ tasks[s].snap.text = user_data'[tasks[s].user].pending_message.text
                /\ tasks[s].snap.ts = user_data'[tasks[s].user].pending_message.ts
                /\ Range(tasks[s].snap.tags) = GetSelected(user_data'[tasks[s].user])
          /\ Stores(s) =>
                /\ db' = Append(db, SnapRow(s))
                /\ tasks[s].snap.text = user_data[tasks[s].user].pending_message.text
                /\ tasks[s].snap.ts = user_data[tasks[s].user].pending_message.ts
                /\ Range(tasks[s].snap.tags) = Selected(tasks[s].user)]_vars

C17_Witness ==
    \E i \in 1..Len(errors), s \in Slots :
        /\ errors[i].exc = "PersistenceError"
        /\ tasks[s].pc = "remove_markup"
        /\ tasks[s].user = errors[i].user
        /\ tasks[s].src > errors[i].src
        /\ db = <<SnapRow(s)>>
        /\ SnapRow(s).ts = begun[tasks[s].user].ts
        /\ begun[tasks[s].user].src < errors[i].src

\* the button press handled in slot s came from a keyboard that is not the one
\* sent for the user's current session
StalePress(s) ==
    /\ tasks[s].kind = "button_handler"
    /\ tasks[s].origin # begun[tasks[s].user].src

\* C18: a button pressed on the keyboard of an earlier message acts on the
\* user's current session: a toggle flips the tag in the selected set of the
\* session begun last and leaves its message alone, a 'done' snapshots and
\* stores the text and timestamp of the session begun last, so the message the
\* keyboard was sent for is not what is stored.
C18_CurrentSession ==
    [][\A s \in Slots :
          LET u == tasks[s].user
          IN  /\ (/\ StalePress(s)
                  /\ tasks[s].pc = "answer"
                  /\ Active(u)
                  /\ tasks'[s].pc = "edit_markup") =>
                    /\ GetSelected(user_data'[u])
                          = Toggle(Selected(u),
                                   SplitOnceTail(tasks[s].data, ":"))
                    /\ user_data'[u].pending_message
                          = user_data[u].pending_message
                    /\ user_data'[u].pending_message.text = begun[u].text
                    /\ user_data'[u].pending_message.ts = begun[u].ts
              /\ (StalePress(s) /\ tasks[s].pc = "answer"
                  /\ tasks'[s].pc = "store") =>
                    /\ tasks'[s].snap.text = begun[u].text
                    /\ tasks'[s].snap.ts = begun[u].ts
              /\ (StalePress(s) /\ Stores(s)) =>
                    /\ db' = Append(db, SnapRow(s))
                    /\ SnapRow(s).text = begun[u].text
                    /\ SnapRow(s).ts = begun[u].ts]_vars

C18_Witness ==
    \E s \in Slots :
        /\ StalePress(s)
        /\ tasks[s].pc = "remove_markup"
        /\ tasks[s].origin # OldKeyboard
        /\ begun[tasks[s].user].src \in keyboards[tasks[s].user]
        /\ tasks[s].origin < begun[tasks[s].user].src
        /\ db = <<SnapRow(s)>>
        /\ SnapRow(s).ts = begun[tasks[s].user].ts

\* C19: for every user the dict holds a pending message exactly when it holds
\* a selected set, so whenever button_handler reads the selected set past its
\* guard the entry exists and the default of the lookup is not used.
C19_KeysTogether ==
    /\ \A u \in Users :
          ("pending_message" \in user_data[u].keys)
             <=> ("selected_tags" \in user_data[u].keys)
    /\ \A s \in Slots :
          (tasks[s].pc = "answer" /\ ~NoSession(user_data[tasks[s].user])) =>
              "selected_tags" \in user_data[tasks[s].user].keys

C19_Witness ==
    \E s \in Slots, u \in Users :
        /\ tasks[s].pc = "answer"
        /\ tasks[s].user = u
        /\ Selected(u) # {}
        /\ user_data[u].keys = {"pending_message", "selected_tags"}
        /\ \E v \in Users : user_data[v].keys = {}

=============================================================================
